---------------------------- MODULE Spec2Model ----------------------------
(***************************************************************************)
(* Model of nsm-driver/src/lib.rs: the user-space side of the exchange     *)
(* with the NSM device (encode a request, bound its size, build the       *)
(* NsmMessage, call Platform::nsm_ioctl, turn the status into a Response)  *)
(* and the device lifecycle (nsm_init / nsm_exit).                         *)
(*                                                                         *)
(* Byte regions.  A byte slice is the record [bytes, zeros]: the explicit  *)
(* bytes `bytes` followed by `zeros` bytes of value 0.  This is only a     *)
(* compact way of writing down a 12288-byte buffer of which a short        *)
(* prefix was written; every operator below reads it byte by byte.         *)
(***************************************************************************)
EXTENDS Integers, Sequences, FiniteSets, TLC

NSM_REQUEST_MAX_SIZE == 4096

NSM_RESPONSE_MAX_SIZE == 12288

\* Largest device handle the platform hands out in the model (handles 0..MaxFd).
MaxFd == 1

Min(a, b) == IF a < b THEN a ELSE b

RLen(r) == Len(r.bytes) + r.zeros

At(r, i) == IF i <= Len(r.bytes) THEN r.bytes[i] ELSE 0

\* Number of explicit bytes left once the explicit zero bytes at the end are
\* counted with the zero tail.
RECURSIVE Significant(_, _)
Significant(s, n) ==
    IF n = 0 THEN 0
    ELSE IF s[n] # 0 THEN n
    ELSE Significant(s, n - 1)

\* The same slice, written with the shortest explicit part.
Norm(r) ==
    LET k == Significant(r.bytes, Len(r.bytes))
    IN  [bytes |-> SubSeq(r.bytes, 1, k), zeros |-> RLen(r) - k]

\* The n bytes of r that start at position from (1-based); n <= RLen(r)-from+1.
Sub(r, from, n) ==
    LET last == Min(from + n - 1, Len(r.bytes))
        exp  == IF from > last THEN << >> ELSE SubSeq(r.bytes, from, last)
    IN  Norm([bytes |-> exp, zeros |-> n - Len(exp)])

Bytes(s) == Norm([bytes |-> s, zeros |-> 0])

\* [0; n]
ZeroRegion(n) == [bytes |-> << >>, zeros |-> n]

\* r with its first Len(data) bytes overwritten by data (Len(data) <= RLen(r)).
Write(r, data) ==
    LET keep == IF Len(data) < Len(r.bytes)
                THEN SubSeq(r.bytes, Len(data) + 1, Len(r.bytes)) ELSE << >>
    IN  Norm([bytes |-> data \o keep,
              zeros |-> RLen(r) - Len(data) - Len(keep)])

\* a followed by b
Concat(a, b) ==
    IF RLen(b) = 0 THEN Norm(a)
    ELSE Norm([bytes |-> a.bytes \o [i \in 1..a.zeros |-> 0] \o b.bytes,
               zeros |-> b.zeros])

(***************************************************************************)
(* The message catalogue (crate nsm-io): the variants used here, with the  *)
(* position of each in its enum.                                           *)
(***************************************************************************)
ErrorCodeNames ==
    << "Success", "InvalidArgument", "InvalidIndex", "InvalidResponse",
       "ReadOnlyIndex", "InvalidOperation", "BufferTooSmall",
       "InputTooLarge", "InternalError" >>

ResponseNames ==
    << "DescribePCR", "ExtendPCR", "LockPCR", "LockPCRs", "DescribeNSM",
       "Attestation", "GetRandom", "Error" >>

UnitResponses == {"LockPCR", "LockPCRs"}

ResponseError(code) == [tag |-> "Error", code |-> code]

ResponseUnit(name) == [tag |-> name]

ResponseGetRandom(random) == [tag |-> "GetRandom", random |-> Norm(random)]

RequestGetRandom == [tag |-> "GetRandom"]

RequestExtendPCR(index, data) ==
    [tag |-> "ExtendPCR", index |-> index, data |-> Norm(data)]

Ascii(s) ==
    CASE s = "DescribePCR" -> <<68, 101, 115, 99, 114, 105, 98, 101, 80, 67, 82>>
      [] s = "ExtendPCR" -> <<69, 120, 116, 101, 110, 100, 80, 67, 82>>
      [] s = "LockPCR" -> <<76, 111, 99, 107, 80, 67, 82>>
      [] s = "LockPCRs" -> <<76, 111, 99, 107, 80, 67, 82, 115>>
      [] s = "DescribeNSM" -> <<68, 101, 115, 99, 114, 105, 98, 101, 78, 83, 77>>
      [] s = "Attestation" -> <<65, 116, 116, 101, 115, 116, 97, 116, 105, 111, 110>>
      [] s = "GetRandom" -> <<71, 101, 116, 82, 97, 110, 100, 111, 109>>
      [] s = "Error" -> <<69, 114, 114, 111, 114>>
      [] s = "Success" -> <<83, 117, 99, 99, 101, 115, 115>>
      [] s = "InvalidArgument" -> <<73, 110, 118, 97, 108, 105, 100, 65, 114, 103, 117, 109, 101, 110, 116>>
      [] s = "InvalidIndex" -> <<73, 110, 118, 97, 108, 105, 100, 73, 110, 100, 101, 120>>
      [] s = "InvalidResponse" -> <<73, 110, 118, 97, 108, 105, 100, 82, 101, 115, 112, 111, 110, 115, 101>>
      [] s = "ReadOnlyIndex" -> <<82, 101, 97, 100, 79, 110, 108, 121, 73, 110, 100, 101, 120>>
      [] s = "InvalidOperation" -> <<73, 110, 118, 97, 108, 105, 100, 79, 112, 101, 114, 97, 116, 105, 111, 110>>
      [] s = "BufferTooSmall" -> <<66, 117, 102, 102, 101, 114, 84, 111, 111, 83, 109, 97, 108, 108>>
      [] s = "InputTooLarge" -> <<73, 110, 112, 117, 116, 84, 111, 111, 76, 97, 114, 103, 101>>
      [] s = "InternalError" -> <<73, 110, 116, 101, 114, 110, 97, 108, 69, 114, 114, 111, 114>>
      [] s = "random" -> <<114, 97, 110, 100, 111, 109>>
      [] s = "index" -> <<105, 110, 100, 101, 120>>
      [] s = "data" -> <<100, 97, 116, 97>>

(***************************************************************************)
(* CBOR as serde_cbor::to_vec writes it.  An item starts with a head byte  *)
(* (major type in the top 3 bits); a length below 24 is in the head byte,  *)
(* a length below 256 follows 24 in one byte, a length below 65536         *)
(* follows 25 in two bytes.  Major types used: 0 unsigned (0), 2 byte      *)
(* string (64), 3 text string (96), 5 map (160).                           *)
(***************************************************************************)
CborHead(major, n) ==
    IF n < 24 THEN << major + n >>
    ELSE IF n < 256 THEN << major + 24, n >>
    ELSE << major + 25, n \div 256, n % 256 >>

CborText(s) == CborHead(96, Len(Ascii(s))) \o Ascii(s)

CborByteString(data) ==
    Concat(Bytes(CborHead(64, RLen(data))), data)

\* A unit variant is its name; a variant with content is a one-entry map
\* from its name to the content; a struct is a map from field names.
EncodeResponse(r) ==
    IF r.tag \in UnitResponses THEN Bytes(CborText(r.tag))
    ELSE IF r.tag = "Error"
    THEN Bytes(CborHead(160, 1) \o CborText("Error") \o CborText(r.code))
    ELSE Concat(Bytes(CborHead(160, 1) \o CborText("GetRandom")
                      \o CborHead(160, 1) \o CborText("random")),
                CborByteString(r.random))

EncodeRequest(r) ==
    IF r.tag = "GetRandom" THEN Bytes(CborText("GetRandom"))
    ELSE Concat(Bytes(CborHead(160, 1) \o CborText("ExtendPCR")
                      \o CborHead(160, 2)
                      \o CborText("index") \o CborHead(0, r.index)
                      \o CborText("data")),
                CborByteString(r.data))

\* fn nsm_encode_request_to_cbor(request) -> Vec<u8>
nsm_encode_request_to_cbor(request) == EncodeRequest(request)


(***************************************************************************)
(* serde_cbor::from_slice::<Response>, for the encodings the platform      *)
(* model can leave in the response region: definite-length heads with a    *)
(* length of at most two bytes, enum variants and struct fields named by   *)
(* a text string or by their position (an unsigned integer below 24), a    *)
(* variant with content as a one-entry map.  Every other head is a parse   *)
(* error here.  A parse result is [ok |-> FALSE] or                        *)
(* [ok |-> TRUE, val |-> v, next |-> position after the item].             *)
(***************************************************************************)
ParseError == [ok |-> FALSE]

ParseOk(v, n) == [ok |-> TRUE, val |-> v, next |-> n]

\* The length in a head of the given major type at pos.
ParseLength(r, pos, major) ==
    IF pos > RLen(r) THEN ParseError
    ELSE LET b == At(r, pos)
         IN  IF b >= major /\ b < major + 24 THEN ParseOk(b - major, pos + 1)
             ELSE IF b = major + 24
             THEN IF pos + 1 > RLen(r) THEN ParseError
                  ELSE ParseOk(At(r, pos + 1), pos + 2)
             ELSE IF b = major + 25
             THEN IF pos + 2 > RLen(r) THEN ParseError
                  ELSE ParseOk(At(r, pos + 1) * 256 + At(r, pos + 2), pos + 3)
             ELSE ParseError

\* A byte or text string at pos: its payload, which must lie inside r.
ParseString(r, pos, major) ==
    LET h == ParseLength(r, pos, major)
    IN  IF ~h.ok THEN ParseError
        ELSE IF h.next + h.val - 1 > RLen(r) THEN ParseError
        ELSE ParseOk(Sub(r, h.next, h.val), h.next + h.val)

\* The positions in names whose text is exactly the slice t.
NamesMatching(names, t) ==
    {i \in 1..Len(names) : Bytes(Ascii(names[i])) = t}

\* A variant or field identifier at pos: a name of `names`, given as text
\* or as its position in `names` counted from 0.
ParseIdentifier(r, pos, names) ==
    IF pos > RLen(r) THEN ParseError
    ELSE LET b == At(r, pos)
         IN  IF b < 24
             THEN IF b < Len(names) THEN ParseOk(names[b + 1], pos + 1)
                  ELSE ParseError
             ELSE LET t == ParseString(r, pos, 96)
                  IN  IF ~t.ok THEN ParseError
                      ELSE LET m == NamesMatching(names, t.val)
                           IN  IF m = {} THEN ParseError
                               ELSE ParseOk(names[CHOOSE i \in m : TRUE], t.next)

\* ErrorCode: every variant is a unit variant.
ParseErrorCode(r, pos) == ParseIdentifier(r, pos, ErrorCodeNames)

\* The struct of variant GetRandom: { random: bytes }.
ParseGetRandom(r, pos) ==
    IF pos > RLen(r) \/ At(r, pos) # 161 THEN ParseError
    ELSE LET f == ParseIdentifier(r, pos + 1, << "random" >>)
         IN  IF ~f.ok THEN ParseError
             ELSE LET d == ParseString(r, f.next, 64)
                  IN  IF ~d.ok THEN ParseError
                      ELSE ParseOk(ResponseGetRandom(d.val), d.next)

ParseResponse(r, pos) ==
    IF pos > RLen(r) THEN ParseError
    ELSE IF At(r, pos) = 161
    THEN LET v == ParseIdentifier(r, pos + 1, ResponseNames)
         IN  IF ~v.ok THEN ParseError
             ELSE IF v.val = "Error"
             THEN LET c == ParseErrorCode(r, v.next)
                  IN  IF c.ok THEN ParseOk(ResponseError(c.val), c.next)
                      ELSE ParseError
             ELSE IF v.val = "GetRandom" THEN ParseGetRandom(r, v.next)
             ELSE ParseError
    ELSE LET v == ParseIdentifier(r, pos, ResponseNames)
         IN  IF v.ok /\ v.val \in UnitResponses
             THEN ParseOk(ResponseUnit(v.val), v.next)
             ELSE ParseError

\* from_slice: one value, then Deserializer::end(), which refuses any byte
\* left after the value (TrailingData).
from_slice(r) ==
    LET v == ParseResponse(r, 1)
    IN  IF v.ok /\ v.next = RLen(r) + 1 THEN v ELSE ParseError

\* A decoder that stops after the first value and ignores what follows.
DecodeIgnoringTrailingBytes(response_data) ==
    LET v == ParseResponse(response_data, 1)
    IN  IF v.ok THEN v.val ELSE ResponseError("InternalError")

\* A decoder that reports a parse failure as InvalidResponse.
DecodeErrAsInvalidResponse(response_data) ==
    LET v == from_slice(response_data)
    IN  IF v.ok THEN v.val ELSE ResponseError("InvalidResponse")

\* fn nsm_decode_response_from_cbor(response_data: &[u8]) -> Response
nsm_decode_response_from_cbor(response_data) ==
    LET v == from_slice(response_data)
    IN  IF v.ok THEN v.val ELSE ResponseError("InternalError")

(***************************************************************************)
(* State.  Two threads of control (Procs) call into the library; each has  *)
(* its own arguments and locals of nsm_process_request.  The handle table  *)
(* `open` is the only state the calls share (the device resources).        *)
(***************************************************************************)
VARIABLES
    open,           \* open[h]: handle h currently refers to an open device
    pc,             \* pc[p]: position of thread p in nsm_process_request
    fd,             \* argument fd
    request,        \* argument request, << >> outside a call
    cbor_request,   \* local cbor_request
    cbor_response,  \* the memory of local cbor_response (kept as the call left it)
    message,        \* local message: [request, response], the two slices
    status,         \* local status: << >> is None, <<e>> is Some(e)
    result,         \* the returned Response: << >> until the call returns
    nioctl,         \* number of P::nsm_ioctl invocations made by the current call
    sent,           \* what P::nsm_ioctl was invoked with, << >> before
    outcome,        \* what the platform did in the exchange, << >> before
    life,           \* the last nsm_init / nsm_exit of the thread and its return
    closed,         \* the handle values that nsm_exit has closed so far
    earlier         \* some call of nsm_process_request has returned already

vars ==
    << open, pc, fd, request, cbor_request, cbor_response, message, status,
       result, nioctl, sent, outcome, life, closed, earlier >>

Procs == {1, 2}

Fds == 0..MaxFd

\* Handle values a caller may pass: the sentinel and every handle value.
Handles == -1..MaxFd

None == << >>

Some(x) == << x >>

NoRegion == ZeroRegion(0)

NoMessage == [request |-> NoRegion, response |-> NoRegion]

(***************************************************************************)
(* Inputs.                                                                 *)
(***************************************************************************)
\* Requests: 10 encoded bytes, 27 bytes, exactly 4096 bytes and 4097 bytes.
Requests ==
    { RequestGetRandom,
      RequestExtendPCR(3, Bytes(<< 7, 0 >>)),
      RequestExtendPCR(3, ZeroRegion(4069)),
      RequestExtendPCR(3, ZeroRegion(4070)) }

RequestsConc == { RequestGetRandom, RequestExtendPCR(3, ZeroRegion(4070)) }

\* Failure codes the platform may report: errno values, and 0 and -1, which
\* Option<i32> admits as well.
Errnos == {-1, 0, 5, 12, 22, 90}

Statuses == {None} \cup {Some(e) : e \in Errnos}

StatusesConc == {None, Some(5), Some(90)}

\* Responses whose encodings the platform may write.
WrittenResponses ==
    { ResponseUnit("LockPCR"),
      ResponseError("BufferTooSmall"),
      ResponseError("InternalError"),
      ResponseGetRandom(Bytes(<< 1, 2, 3 >>)) }

\* A response that fills the whole response region: 22 bytes of heads and
\* names, then 12266 bytes of value 0.
FullSizeResponse == ResponseGetRandom(ZeroRegion(NSM_RESPONSE_MAX_SIZE - 22))

\* What the platform writes at the start of the response region: nothing, a
\* whole encoding, a truncated one, one followed by a stray byte, a byte that
\* starts no item, and the explicit part of the full-size response.
WrittenData ==
    { << >>, << 255 >> }
    \cup { EncodeResponse(r).bytes : r \in WrittenResponses }
    \cup { SubSeq(EncodeResponse(ResponseUnit("LockPCR")).bytes, 1, 3),
           SubSeq(EncodeResponse(ResponseError("BufferTooSmall")).bytes, 1, 7),
           EncodeResponse(ResponseUnit("LockPCR")).bytes \o << 255 >>,
           EncodeResponse(FullSizeResponse).bytes }

WrittenDataConc == { << >>, EncodeResponse(ResponseUnit("LockPCR")).bytes }

\* An exchange of the platform: the status it returns, the bytes it writes
\* at the start of the response slice, and whether it cuts the slice in the
\* message down to the bytes written (as the driver does with the length
\* field of the message) or leaves it at its capacity.
Outcomes(statuses, datas) ==
    [status : statuses, data : datas, shrink : BOOLEAN]

(***************************************************************************)
(* Platform::nsm_ioctl(fd, &mut message): the message after the exchange.  *)
(***************************************************************************)
PlatformExchange(msg, o) ==
    LET written == Write(msg.response, o.data)
    IN  [request  |-> msg.request,
         response |-> IF o.shrink THEN Sub(written, 1, Len(o.data))
                      ELSE written]

(***************************************************************************)
(* nsm_process_request, line by line.                                      *)
(***************************************************************************)
\* A size check against the capacity of the response region.
RequestTooLargeForResponse(cbor) == RLen(cbor) > NSM_RESPONSE_MAX_SIZE

\* A size check that also refuses a request of exactly the maximum size.
RequestAtLeastMax(cbor) == RLen(cbor) >= NSM_REQUEST_MAX_SIZE

\* if cbor_request.len() > NSM_REQUEST_MAX_SIZE
RequestTooLarge(cbor) == RLen(cbor) > NSM_REQUEST_MAX_SIZE

\* [0; NSM_RESPONSE_MAX_SIZE]
FreshResponse == ZeroRegion(NSM_RESPONSE_MAX_SIZE)

\* The errno of E2BIG taken for the distinguished code.
ErrnoResponseE2BIG(errno) ==
    IF errno = 7 THEN ResponseError("InputTooLarge")
    ELSE ResponseError("InternalError")

\* Some(errno) => if errno == 90 { InputTooLarge } else { InternalError }
ErrnoResponse(errno) ==
    IF errno = 90 THEN ResponseError("InputTooLarge")
    ELSE ResponseError("InternalError")

\* A status of Some(0) taken for success.
IsSuccessOrZero(st) == st = None \/ st = Some(0)

\* match status { None => ...
IsSuccess(st) == st = None

\* match status { None => decode(message.response), Some(errno) => ... }
MatchStatus(st, msg) ==
    IF IsSuccess(st) THEN nsm_decode_response_from_cbor(msg.response)
    ELSE ErrnoResponse(st[1])

\* Entry: the caller passes a handle value and a request.
PR_Call(p, h, r) ==
    /\ pc[p] = "idle"
    /\ pc' = [pc EXCEPT ![p] = "called"]
    /\ fd' = [fd EXCEPT ![p] = h]
    /\ request' = [request EXCEPT ![p] = Some(r)]
    /\ life' = [life EXCEPT ![p] = None]
    /\ UNCHANGED << open, cbor_request, cbor_response, message, status,
                    result, nioctl, sent, outcome, closed, earlier >>

\* let cbor_request = nsm_encode_request_to_cbor(request);
PR_Encode(p) ==
    /\ pc[p] = "called"
    /\ cbor_request' =
           [cbor_request EXCEPT ![p] = nsm_encode_request_to_cbor(request[p][1])]
    /\ pc' = [pc EXCEPT ![p] = "encoded"]
    /\ UNCHANGED << open, fd, request, cbor_response, message, status,
                    result, nioctl, sent, outcome, life, closed, earlier >>

\* if cbor_request.len() > NSM_REQUEST_MAX_SIZE { return Error(InputTooLarge) }
PR_CheckSize(p) ==
    /\ pc[p] = "encoded"
    /\ IF RequestTooLarge(cbor_request[p])
       THEN /\ result' = [result EXCEPT
                             ![p] = Some(ResponseError("InputTooLarge"))]
            /\ pc' = [pc EXCEPT ![p] = "done"]
       ELSE /\ pc' = [pc EXCEPT ![p] = "checked"]
            /\ UNCHANGED result
    /\ UNCHANGED << open, fd, request, cbor_request, cbor_response, message,
                    status, nioctl, sent, outcome, life, closed, earlier >>

\* One buffer shared by every call: building the message of one call
\* clears the response region of all of them.
PR_AllocShared(p) ==
    /\ pc[p] = "checked"
    /\ cbor_response' = [q \in Procs |-> FreshResponse]
    /\ message' = [q \in Procs |->
                      IF q = p
                      THEN [request |-> cbor_request[p], response |-> FreshResponse]
                      ELSE [request |-> message[q].request,
                            response |-> IF message[q] = NoMessage THEN NoRegion
                                         ELSE FreshResponse]]
    /\ pc' = [pc EXCEPT ![p] = "built"]
    /\ UNCHANGED << open, fd, request, cbor_request, status, result, nioctl,
                    sent, outcome, life, closed, earlier >>

\* The response region not cleared: the message refers to the memory as
\* the previous call left it.
PR_AllocReusing(p) ==
    /\ pc[p] = "checked"
    /\ LET region == IF cbor_response[p] = NoRegion THEN FreshResponse
                     ELSE cbor_response[p]
       IN  /\ cbor_response' = [cbor_response EXCEPT ![p] = region]
           /\ message' = [message EXCEPT
                             ![p] = [request |-> cbor_request[p],
                                     response |-> region]]
    /\ pc' = [pc EXCEPT ![p] = "built"]
    /\ UNCHANGED << open, fd, request, cbor_request, status, result, nioctl,
                    sent, outcome, life, closed, earlier >>

\* let mut cbor_response = [0; NSM_RESPONSE_MAX_SIZE];
\* let mut message = NsmMessage { request: &cbor_request, response: &mut cbor_response };
PR_Alloc(p) ==
    /\ pc[p] = "checked"
    /\ cbor_response' = [cbor_response EXCEPT ![p] = FreshResponse]
    /\ message' = [message EXCEPT
                      ![p] = [request |-> cbor_request[p],
                              response |-> FreshResponse]]
    /\ pc' = [pc EXCEPT ![p] = "built"]
    /\ UNCHANGED << open, fd, request, cbor_request, status, result, nioctl,
                    sent, outcome, life, closed, earlier >>

\* The exchange made through a file object that owns the handle and closes
\* it when dropped.
PR_IoctlClosingHandle(p, o) ==
    /\ pc[p] = "built"
    /\ sent' = [sent EXCEPT
                   ![p] = Some([fd |-> fd[p], message |-> message[p],
                                open |-> fd[p] \in Fds /\ open[fd[p]],
                                closed |-> fd[p] \in closed])]
    /\ outcome' = [outcome EXCEPT ![p] = Some(o)]
    /\ message' = [message EXCEPT ![p] = PlatformExchange(message[p], o)]
    /\ cbor_response' = [cbor_response EXCEPT
                            ![p] = Write(cbor_response[p], o.data)]
    /\ status' = [status EXCEPT ![p] = o.status]
    /\ nioctl' = [nioctl EXCEPT ![p] = nioctl[p] + 1]
    /\ pc' = [pc EXCEPT ![p] = "exchanged"]
    /\ open' = [h \in Fds |-> open[h] /\ h # fd[p]]
    /\ UNCHANGED << fd, request, cbor_request, result, life, closed, earlier >>

\* let status = P::nsm_ioctl(fd, &mut message);
PR_Ioctl(p, o) ==
    /\ pc[p] = "built"
    /\ sent' = [sent EXCEPT
                   ![p] = Some([fd |-> fd[p], message |-> message[p],
                                open |-> fd[p] \in Fds /\ open[fd[p]],
                                closed |-> fd[p] \in closed])]
    /\ outcome' = [outcome EXCEPT ![p] = Some(o)]
    /\ message' = [message EXCEPT ![p] = PlatformExchange(message[p], o)]
    /\ cbor_response' = [cbor_response EXCEPT
                            ![p] = Write(cbor_response[p], o.data)]
    /\ status' = [status EXCEPT ![p] = o.status]
    /\ nioctl' = [nioctl EXCEPT ![p] = nioctl[p] + 1]
    /\ pc' = [pc EXCEPT ![p] = "exchanged"]
    /\ UNCHANGED << open, fd, request, cbor_request, result, life, closed,
                    earlier >>

\* match status { ... }: the value of the function.
PR_Match(p) ==
    /\ pc[p] = "exchanged"
    /\ result' = [result EXCEPT ![p] = Some(MatchStatus(status[p], message[p]))]
    /\ pc' = [pc EXCEPT ![p] = "done"]
    /\ UNCHANGED << open, fd, request, cbor_request, cbor_response, message,
                    status, nioctl, sent, outcome, life, closed, earlier >>

\* The function returns: its arguments and locals are gone; only the
\* memory that held cbor_response keeps what the call left in it.
PR_Return(p) ==
    /\ pc[p] = "done"
    /\ pc' = [pc EXCEPT ![p] = "idle"]
    /\ fd' = [fd EXCEPT ![p] = -1]
    /\ request' = [request EXCEPT ![p] = None]
    /\ cbor_request' = [cbor_request EXCEPT ![p] = NoRegion]
    /\ message' = [message EXCEPT ![p] = NoMessage]
    /\ status' = [status EXCEPT ![p] = None]
    /\ result' = [result EXCEPT ![p] = None]
    /\ nioctl' = [nioctl EXCEPT ![p] = 0]
    /\ sent' = [sent EXCEPT ![p] = None]
    /\ outcome' = [outcome EXCEPT ![p] = None]
    /\ earlier' = TRUE
    /\ UNCHANGED << open, cbor_response, life, closed >>

(***************************************************************************)
(* Lifecycle.                                                              *)
(***************************************************************************)
\* The error branch returning 0.
nsm_init_returning_zero(open_dev) ==
    IF open_dev.ok THEN open_dev.fd ELSE 0

\* match open_dev { Ok(f) => f.into_raw_fd() as i32, Err(e) => -1 }
nsm_init_return(open_dev) ==
    IF open_dev.ok THEN open_dev.fd ELSE -1

\* nsm_init(): OpenOptions::open(DEV_FILE) succeeds with a handle that is
\* not open yet, or fails.
nsm_init(p, open_dev) ==
    /\ pc[p] = "idle"
    /\ open_dev.ok => (open_dev.fd \in Fds /\ ~open[open_dev.fd])
    /\ ~open_dev.ok => open_dev.fd = -1
    /\ open' = IF open_dev.ok THEN [open EXCEPT ![open_dev.fd] = TRUE] ELSE open
    /\ life' = [life EXCEPT
                   ![p] = Some([op |-> "nsm_init", arg |-> None,
                                ok |-> open_dev.ok,
                                ret |-> Some(nsm_init_return(open_dev)),
                                log |-> IF open_dev.ok THEN "debug" ELSE "error"])]
    /\ UNCHANGED << pc, fd, request, cbor_request, cbor_response, message,
                    status, result, nioctl, sent, outcome, closed, earlier >>

\* nsm_exit(fd): close(fd) succeeds on an open handle and fails on any
\* other value; either way the outcome is logged and nothing is returned.
nsm_exit(p, h) ==
    /\ pc[p] = "idle"
    /\ LET ok == h \in Fds /\ open[h]
       IN  /\ open' = [x \in Fds |-> open[x] /\ x # h]
           /\ life' = [life EXCEPT
                          ![p] = Some([op |-> "nsm_exit", arg |-> Some(h),
                                       ok |-> ok, ret |-> None,
                                       log |-> IF ok THEN "debug" ELSE "error"])]
           /\ closed' = IF ok THEN closed \cup {h} ELSE closed
    /\ UNCHANGED << pc, fd, request, cbor_request, cbor_response, message,
                    status, result, nioctl, sent, outcome, earlier >>

OpenResults == [ok : {TRUE}, fd : Fds] \cup {[ok |-> FALSE, fd |-> -1]}

(***************************************************************************)
(* Specifications.  Spec: one thread, the full input sets, the lifecycle.  *)
(* SpecConc: two threads inside nsm_process_request whose steps            *)
(* interleave, after the caller has opened every handle; smaller input     *)
(* sets.                                                                   *)
(***************************************************************************)
Init ==
    /\ open = [h \in Fds |-> FALSE]
    /\ pc = [p \in Procs |-> "idle"]
    /\ fd = [p \in Procs |-> -1]
    /\ request = [p \in Procs |-> None]
    /\ cbor_request = [p \in Procs |-> NoRegion]
    /\ cbor_response = [p \in Procs |-> NoRegion]
    /\ message = [p \in Procs |-> NoMessage]
    /\ status = [p \in Procs |-> None]
    /\ result = [p \in Procs |-> None]
    /\ nioctl = [p \in Procs |-> 0]
    /\ sent = [p \in Procs |-> None]
    /\ outcome = [p \in Procs |-> None]
    /\ life = [p \in Procs |-> None]
    /\ closed = {}
    /\ earlier = FALSE

\* Every handle has been opened by nsm_init and no call is in progress.
InitConc ==
    /\ open = [h \in Fds |-> TRUE]
    /\ pc = [p \in Procs |-> "idle"]
    /\ fd = [p \in Procs |-> -1]
    /\ request = [p \in Procs |-> None]
    /\ cbor_request = [p \in Procs |-> NoRegion]
    /\ cbor_response = [p \in Procs |-> NoRegion]
    /\ message = [p \in Procs |-> NoMessage]
    /\ status = [p \in Procs |-> None]
    /\ result = [p \in Procs |-> None]
    /\ nioctl = [p \in Procs |-> 0]
    /\ sent = [p \in Procs |-> None]
    /\ outcome = [p \in Procs |-> None]
    /\ life = [p \in Procs |-> None]
    /\ closed = {}
    /\ earlier = FALSE

Next ==
    \/ \E h \in Handles, r \in Requests : PR_Call(1, h, r)
    \/ PR_Encode(1)
    \/ PR_CheckSize(1)
    \/ PR_Alloc(1)
    \/ \E o \in Outcomes(Statuses, WrittenData) : PR_Ioctl(1, o)
    \/ PR_Match(1)
    \/ PR_Return(1)
    \/ \E d \in OpenResults : nsm_init(1, d)
    \/ \E h \in Handles : nsm_exit(1, h)

Spec == Init /\ [][Next]_vars

NextConc ==
    \E p \in Procs :
        \/ \E h \in Handles, r \in RequestsConc : PR_Call(p, h, r)
        \/ PR_Encode(p)
        \/ PR_CheckSize(p)
        \/ PR_Alloc(p)
        \/ \E o \in Outcomes(StatusesConc, WrittenDataConc) : PR_Ioctl(p, o)
        \/ PR_Match(p)
        \/ PR_Return(p)

SpecConc == InitConc /\ [][NextConc]_vars

(***************************************************************************)
(* Properties.                                                             *)
(***************************************************************************)
InputTooLarge == ResponseError("InputTooLarge")

InternalError == ResponseError("InternalError")

\* The request of the call thread p is in.
Req(p) == request[p][1]

InCall(p) == request[p] # None

EncodedSize(p) == RLen(EncodeRequest(Req(p)))

Returned(p) == pc[p] = "done"

\* The exchange of the current call of p, once made.
Exchanged(p) == outcome[p] # None

Exchange(p) == outcome[p][1]

\* The response of a call with request r that runs by itself and whose
\* exchange, if it makes one, is o.
Alone(r, o) ==
    IF RLen(EncodeRequest(r)) > 4096 THEN InputTooLarge
    ELSE IF o[1].status = None
    THEN nsm_decode_response_from_cbor(
             PlatformExchange([request |-> EncodeRequest(r),
                               response |-> ZeroRegion(12288)], o[1]).response)
    ELSE IF o[1].status = Some(90) THEN InputTooLarge
    ELSE InternalError

\* The encodings of a response that have the length of region: the unit
\* variants, the error variant with each code, and GetRandom with each
\* tail of region as its bytes.
EncodingsOfLength(region) ==
    { EncodeResponse(ResponseUnit(n)) : n \in UnitResponses }
    \cup { EncodeResponse(ResponseError(ErrorCodeNames[i])) :
               i \in 1..Len(ErrorCodeNames) }
    \cup { EncodeResponse(ResponseGetRandom(Sub(region, k + 1, RLen(region) - k))) :
               k \in 0..Min(RLen(region), 32) }

IsValidEncoding(region) == region \in EncodingsOfLength(region)

\* region is the encoding of r followed by at least one byte of value 0.
IsPadded(region, r) ==
    /\ RLen(region) > RLen(EncodeResponse(r))
    /\ region = Concat(EncodeResponse(r),
                       ZeroRegion(RLen(region) - RLen(EncodeResponse(r))))

\* C1: a request whose encoding is longer than 4096 bytes makes
\* nsm_process_request return Error(InputTooLarge), and at no point of that
\* call is P::nsm_ioctl invoked, whatever the handle value.
C1_OversizeNeverExchanged ==
    \A p \in Procs :
        (InCall(p) /\ EncodedSize(p) > 4096) =>
            /\ nioctl[p] = 0
            /\ sent[p] = None
            /\ ~Exchanged(p)
            /\ Returned(p) => result[p] = Some(InputTooLarge)

C1_Witness ==
    \E p \in Procs :
        /\ Returned(p)
        /\ EncodedSize(p) = 4097
        /\ fd[p] \in Fds /\ open[fd[p]]
        /\ result[p] = Some(InputTooLarge)
        /\ nioctl[p] = 0

\* C2: after the size check, failure code 90 gives Error(InputTooLarge) and
\* every other nonzero failure code gives Error(InternalError).
C2_FailureCodeMapping ==
    \A p \in Procs :
        (Returned(p) /\ Exchanged(p) /\ Exchange(p).status # None
                     /\ Exchange(p).status # Some(0)) =>
            result[p] = Some(IF Exchange(p).status[1] = 90
                             THEN InputTooLarge ELSE InternalError)

C2_Witness ==
    \E p \in Procs :
        /\ Returned(p) /\ Exchanged(p)
        /\ Exchange(p).status = Some(90)
        /\ result[p] = Some(InputTooLarge)

\* C3 as stated: when the exchange on an open handle succeeds after writing
\* the N bytes of the encoding of a response r at the start of the output
\* region, leaving the rest zero, the call returns r.
C3_Original ==
    \A p \in Procs : \A r \in WrittenResponses :
        (Returned(p) /\ Exchanged(p) /\ Exchange(p).status = None
                     /\ sent[p][1].open
                     /\ Bytes(Exchange(p).data) = EncodeResponse(r)) =>
            result[p] = Some(r)

\* C3 amended: when the exchange succeeds, the call decodes the response
\* slice of the message as the exchange left it.  If that slice is exactly
\* the encoding of r (N = 12288, or the platform cut the slice to the N
\* bytes written), the call returns r; if the encoding of r is followed in
\* the slice by zero padding, the call returns Error(InternalError).
C3_DecodesSliceAsLeft ==
    \A p \in Procs : \A r \in WrittenResponses \cup {FullSizeResponse} :
        (Returned(p) /\ Exchanged(p) /\ Exchange(p).status = None) =>
            /\ message[p].response = EncodeResponse(r) => result[p] = Some(r)
            /\ IsPadded(message[p].response, r) => result[p] = Some(InternalError)

C3_Witness ==
    \E p \in Procs :
        /\ Returned(p) /\ Exchanged(p) /\ Exchange(p).status = None
        /\ Exchange(p).shrink
        /\ Exchange(p).data = EncodeResponse(ResponseError("BufferTooSmall")).bytes
        /\ result[p] = Some(ResponseError("BufferTooSmall"))

\* C4: when the exchange succeeds and the response slice is not the
\* encoding of any response (empty, truncated, padded, arbitrary), decoding
\* yields a value, and that value, which the call returns, is
\* Error(InternalError).
C4_InvalidBytesGiveInternalError ==
    \A p \in Procs :
        (Returned(p) /\ Exchanged(p) /\ Exchange(p).status = None
                     /\ ~IsValidEncoding(message[p].response)) =>
            result[p] = Some(InternalError)

C4_Witness ==
    \E p \in Procs :
        /\ Returned(p) /\ Exchanged(p) /\ Exchange(p).status = None
        /\ Exchange(p).shrink
        /\ Exchange(p).data = SubSeq(EncodeResponse(ResponseUnit("LockPCR")).bytes, 1, 3)
        /\ ~IsValidEncoding(message[p].response)
        /\ result[p] = Some(InternalError)

\* C5: nsm_init returns -1 exactly when the device could not be opened and
\* a handle >= 0, now open, when it could; nsm_exit with any handle value
\* completes and returns nothing, its failure being visible in the log only.
C5_LifecycleReturns ==
    \A p \in Procs :
        life[p] # None =>
            LET l == life[p][1]
            IN  /\ l.op = "nsm_init" =>
                    /\ Len(l.ret) = 1
                    /\ l.ok => (l.ret[1] >= 0 /\ l.ret[1] \in Fds /\ open[l.ret[1]])
                    /\ ~l.ok => l.ret[1] = -1
                    /\ l.ret[1] = -1 => ~l.ok
                /\ l.op = "nsm_exit" =>
                    /\ l.ret = None
                    /\ l.arg[1] \in Fds => ~open[l.arg[1]]
                    /\ l.log = (IF l.ok THEN "debug" ELSE "error")

\* nsm_exit called with a handle that nsm_exit has closed before.
C5_Witness ==
    \E p \in Procs :
        /\ life[p] # None
        /\ life[p][1].op = "nsm_exit"
        /\ life[p][1].arg[1] \in closed
        /\ ~life[p][1].ok
        /\ life[p][1].ret = None

\* C6 as stated: no exchange is ever invoked with a handle value that
\* nsm_exit has closed.
C6_Original ==
    \A p \in Procs : sent[p] # None => ~sent[p][1].closed

\* C6 amended: nsm_process_request hands the handle value it was given to
\* the platform exchange as it is, and the exchange leaves the handle as it
\* was: an open handle is open afterwards (a closed one closed), with the
\* same value.  (Nothing in this layer keeps a closed handle value from
\* being passed in again.)
C6_ExchangeKeepsHandle ==
    \A p \in Procs :
        sent[p] # None =>
            /\ sent[p][1].fd = fd[p]
            /\ sent[p][1].open = (fd[p] \in Fds /\ open[fd[p]])

C6_Witness ==
    \E p \in Procs :
        /\ Returned(p) /\ sent[p] # None
        /\ earlier
        /\ sent[p][1].open
        /\ open[fd[p]]

\* C7: a request whose encoding has at most 4096 bytes makes the call
\* invoke P::nsm_ioctl exactly once, whatever the exchange returns, and the
\* response is the one the call gives by itself, whatever was called before.
C7_ExactlyOneExchange ==
    \A p \in Procs :
        (InCall(p) /\ EncodedSize(p) <= 4096) =>
            /\ nioctl[p] <= 1
            /\ pc[p] \in {"exchanged", "done"} =>
                   /\ nioctl[p] = 1
                   /\ Exchanged(p)
            /\ Returned(p) => result[p] = Some(Alone(Req(p), outcome[p]))

C7_Witness ==
    \E p \in Procs :
        /\ Returned(p)
        /\ earlier
        /\ EncodedSize(p) = 4096
        /\ nioctl[p] = 1
        /\ Exchange(p).status = Some(22)

\* C8: P::nsm_ioctl is invoked with a message whose request slice is the
\* encoding of the request, of at most 4096 bytes, and whose response slice
\* is 12288 bytes of value 0, whatever an earlier call left behind.
C8_EnvelopeAtExchange ==
    \A p \in Procs :
        sent[p] # None =>
            /\ sent[p][1].message.request = EncodeRequest(Req(p))
            /\ RLen(sent[p][1].message.request) <= 4096
            /\ sent[p][1].message.response = ZeroRegion(12288)

\* The second exchange of a thread whose first one left bytes in the region.
C8_Witness ==
    \E p \in Procs :
        /\ pc[p] = "built"
        /\ earlier
        /\ message[p].response = ZeroRegion(12288)
        /\ message[p].request = EncodeRequest(RequestExtendPCR(3, ZeroRegion(4069)))

\* The locals of nsm_process_request in thread p.
Locals(p) ==
    << fd[p], request[p], cbor_request[p], cbor_response[p], message[p],
       status[p], result[p] >>

\* C9: with two calls in progress in two threads, every call returns the
\* response it gives by itself for its request and its exchange, and a step
\* of one thread leaves the request, the encoded request, the response
\* region, the message and the result of the other as they were.
C9_ConcurrentCallsIndependent ==
    /\ [](\A p \in Procs :
              Returned(p) => result[p] = Some(Alone(Req(p), outcome[p])))
    /\ [][\A p \in Procs : pc'[p] = pc[p] => Locals(p)' = Locals(p)]_vars

C9_Witness ==
    /\ Returned(1) /\ Returned(2)
    /\ fd[1] \in Fds /\ fd[2] \in Fds /\ fd[1] # fd[2]
    /\ Exchanged(1) /\ Exchanged(2)
    /\ result[1] = Some(ResponseUnit("LockPCR"))
    /\ result[2] = Some(InputTooLarge)

\* C10: when the exchange returns a code, 0 included, the response is
\* Error(InputTooLarge) for 90 and Error(InternalError) otherwise, whatever
\* bytes the platform left in the response slice.
C10_CodeAloneDecides ==
    \A p \in Procs :
        (Returned(p) /\ Exchanged(p) /\ Exchange(p).status # None) =>
            /\ result[p] \in {Some(InputTooLarge), Some(InternalError)}
            /\ result[p] = Some(InputTooLarge) <=> Exchange(p).status = Some(90)

\* Code 0 with a decodable response in the slice.
C10_Witness ==
    \E p \in Procs :
        /\ Returned(p) /\ Exchanged(p)
        /\ Exchange(p).status = Some(0)
        /\ message[p].response = EncodeResponse(ResponseUnit("LockPCR"))
        /\ result[p] = Some(InternalError)

=============================================================================
